---- MODULE Spec2Model ----
(***************************************************************************)
(* A model of easy-cluster: the cluster sampler, the spanning-tree builder, *)
(* the chunk classification, the raster fill and the placement pass of      *)
(* src/src/main.rs, and Region::set_block_state / fill / to_tag of          *)
(* src/minecraft-schematics/src/lib.rs.                                     *)
(*                                                                          *)
(* The hash oracle (mix(long) & mask, main.rs:75-76) is modelled by its     *)
(* range: every coordinate has one hash in 0..mask, read once, when its     *)
(* column is scanned, and recorded in `scanned`.  The graph's nodes and     *)
(* edges are sequences (NodeIndex i is position i + 1); img_data,           *)
(* block_states and palette_tags are functions over 0..n-1; a 64-bit word   *)
(* is the set of its set bit positions.                                     *)
(***************************************************************************)
EXTENDS Integers, Sequences, FiniteSets, TLC

(* Bounds of the model. *)
width == 2
MaxHashSize == 4
MaxLength == 3

offset == <<-20, 20>>

VARIABLES
    pc,                 \* position in main / in the caller of Region
    hash_size,          \* main.rs:50
    cluster_size,       \* main.rs:49
    length,             \* main.rs:61, number of columns scanned
    scanned,            \* hash of every coordinate read so far
    cluster_chunks,     \* BTreeSet<Chunk>
    potential_chunks,   \* BinaryHeap<Chunk>
    graph_nodes,        \* petgraph node weights, by NodeIndex
    graph_edges,        \* petgraph edges, by EdgeIndex: <<a, b, d>>
    chunks,             \* HashMap<(i32, i32), ChunkType>
    img_data,           \* Vec<u8>
    chunks_to_explore,  \* HashSet<(i32, i32)>
    current_chunks,     \* what is left of the drained Vec of this round
    chunks_connected,   \* HashSet<(i32, i32)>
    blocks,             \* Region.blocks: HashMap<BlockPos, &BlockState>
    tag                 \* what to_tag has computed so far

vars == <<pc, hash_size, cluster_size, length, scanned, cluster_chunks,
          potential_chunks, graph_nodes, graph_edges, chunks, img_data,
          chunks_to_explore, current_chunks, chunks_connected, blocks, tag>>

samplerVars == <<length, scanned, cluster_chunks, potential_chunks>>
treeVars == <<graph_nodes, graph_edges>>
exploreVars == <<chunks_to_explore, current_chunks, chunks_connected>>

Empty == <<>>

Abs(n) == IF n < 0 THEN -n ELSE n
Min2(a, b) == IF a < b THEN a ELSE b
Max2(a, b) == IF a < b THEN b ELSE a
Range(f) == {f[i] : i \in DOMAIN f}

(***************************************************************************)
(* main.rs: helpers                                                         *)
(***************************************************************************)
dist(pos1, pos2) == Abs(pos1[1] - pos2[1]) + Abs(pos1[2] - pos2[2])

Pos(c) == <<c.x, c.z>>

(* impl Ord for Chunk: cmp(a, b) = Less.  The hash comparison is reversed. *)
ChunkLessByLowHash(a, b) ==
    \/ a.hash < b.hash
    \/ a.hash = b.hash /\ a.x < b.x
    \/ a.hash = b.hash /\ a.x = b.x /\ a.z < b.z

ChunkLess(a, b) ==
    \/ b.hash < a.hash
    \/ a.hash = b.hash /\ a.x < b.x
    \/ a.hash = b.hash /\ a.x = b.x /\ a.z < b.z

(* BinaryHeap::peek: the greatest element of a max-heap. *)
Peek(heap) == CHOOSE c \in heap : \A d \in heap : d = c \/ ChunkLess(d, c)

(* BTreeSet::first / pop_first: the least element. *)
First(set) == CHOOSE c \in set : \A d \in set : d = c \/ ChunkLess(c, d)

is_power_of_two(n) == \E b \in 0..n : 2^b = n

mask == hash_size - 1

(* u64 values near 0 or near 2^64 are written as small integers: n < 0      *)
(* stands for 2^64 + n, which is what a wrapping u64 subtraction below 0    *)
(* leaves.  Hashes are at most mask, far below 2^64 + n.                    *)
min_hash == hash_size - cluster_size

MaxHashOffByOne(accepted) == min_hash + accepted + 1

(* main.rs:64 *)
max_hash(accepted) == min_hash + accepted

(* hash >= bound and hash <= bound on u64, hash in 0..mask. *)
HashGe(hash, bound) == bound >= 0 /\ hash >= bound
HashLe(hash, bound) == bound < 0 \/ hash <= bound

(***************************************************************************)
(* main.rs:46-61                                                            *)
(***************************************************************************)
Init ==
    /\ pc = "start"
    /\ hash_size \in 1..MaxHashSize
    /\ cluster_size \in 0..(hash_size + 1)
    /\ length = 0
    /\ scanned = Empty
    /\ cluster_chunks = {}
    /\ potential_chunks = {}
    /\ graph_nodes = Empty
    /\ graph_edges = Empty
    /\ chunks = Empty
    /\ img_data = Empty
    /\ chunks_to_explore = {}
    /\ current_chunks = {}
    /\ chunks_connected = {}
    /\ blocks = Empty
    /\ tag = Empty

(* main.rs:52-63.  hash_size - cluster_size below 0 panics in a build with  *)
(* overflow checks and wraps in one without.                                *)
Start ==
    /\ pc = "start"
    /\ \/ /\ ~is_power_of_two(hash_size)
          /\ pc' = "panic"
       \/ /\ is_power_of_two(hash_size)
          /\ cluster_size > hash_size
          /\ pc' \in {"panic", "sample"}
       \/ /\ is_power_of_two(hash_size)
          /\ cluster_size <= hash_size
          /\ pc' = IF 0 < cluster_size THEN "sample" ELSE "sampled"
    /\ UNCHANGED <<hash_size, cluster_size, samplerVars, treeVars, chunks,
                   img_data, exploreVars, blocks, tag>>

(***************************************************************************)
(* main.rs:63-88, one iteration of the sampler loop                         *)
(***************************************************************************)
Sufficient ==
    /\ potential_chunks # {}
    /\ HashLe(Peek(potential_chunks).hash, max_hash(Cardinality(cluster_chunks)))

AfterSample(set) ==
    IF Cardinality(set) < cluster_size THEN "sample" ELSE "sampled"

Accept ==
    /\ pc = "sample"
    /\ Sufficient
    /\ LET chunk == Peek(potential_chunks) IN
        /\ potential_chunks' = potential_chunks \ {chunk}
        /\ cluster_chunks' = cluster_chunks \cup {chunk}
        /\ pc' = AfterSample(cluster_chunks')
    /\ UNCHANGED <<hash_size, cluster_size, length, scanned, treeVars, chunks,
                   img_data, exploreVars, blocks, tag>>

Column(x, hashes) ==
    {[x |-> x, z |-> offset[2] + i, hash |-> hashes[i]] : i \in 0..(width - 1)}

ScanColumn ==
    /\ pc = "sample"
    /\ ~Sufficient
    /\ length < MaxLength
    /\ \E hashes \in [0..(width - 1) -> 0..mask] :
        LET x == length + offset[1]
            col == Column(x, hashes) IN
        /\ potential_chunks' =
               potential_chunks \cup {c \in col : HashGe(c.hash, min_hash)}
        /\ scanned' = [p \in DOMAIN scanned \cup {Pos(c) : c \in col} |->
                          IF p \in DOMAIN scanned THEN scanned[p]
                          ELSE hashes[p[2] - offset[2]]]
    /\ length' = length + 1
    /\ UNCHANGED <<pc, hash_size, cluster_size, cluster_chunks, treeVars,
                   chunks, img_data, exploreVars, blocks, tag>>

(***************************************************************************)
(* main.rs:96-113, the spanning tree (Prim's method)                        *)
(***************************************************************************)
AfterGrow(set) == IF set = {} THEN "collect" ELSE "tree"

SeedTree ==
    /\ pc = "sampled"
    /\ IF cluster_chunks = {}
       THEN /\ pc' = "panic"
            /\ UNCHANGED <<cluster_chunks, graph_nodes>>
       ELSE LET first == First(cluster_chunks) IN
            /\ graph_nodes' = <<first>>
            /\ cluster_chunks' = cluster_chunks \ {first}
            /\ pc' = AfterGrow(cluster_chunks')
    /\ UNCHANGED <<hash_size, cluster_size, length, scanned, potential_chunks,
                   graph_edges, chunks, img_data, exploreVars, blocks, tag>>

KeyGreater(d1, d2) == d1 > d2

(* min_by_key keeps the first of the elements with the least key. *)
KeyLess(d1, d2) == d1 < d2

(* main.rs:103-105: the nearest remaining chunk, iterating the BTreeSet in *)
(* ascending order.                                                         *)
NearestChunk(node) ==
    CHOOSE c \in cluster_chunks : \A e \in cluster_chunks \ {c} :
        \/ KeyLess(dist(Pos(c), Pos(node)), dist(Pos(e), Pos(node)))
        \/ /\ dist(Pos(c), Pos(node)) = dist(Pos(e), Pos(node))
           /\ ChunkLess(c, e)

NearestDist(i) == dist(Pos(NearestChunk(graph_nodes[i])), Pos(graph_nodes[i]))

(* main.rs:102-107: the node whose nearest chunk is nearest, lowest index   *)
(* first.                                                                   *)
NearestNode ==
    CHOOSE i \in DOMAIN graph_nodes : \A j \in DOMAIN graph_nodes \ {i} :
        \/ KeyLess(NearestDist(i), NearestDist(j))
        \/ NearestDist(i) = NearestDist(j) /\ i < j

GrowTree ==
    /\ pc = "tree"
    /\ LET index_a == NearestNode
           chunk == NearestChunk(graph_nodes[index_a])
           d == NearestDist(index_a)
           index_b == Len(graph_nodes) + 1 IN
        /\ graph_nodes' = Append(graph_nodes, chunk)
        /\ graph_edges' = Append(graph_edges, <<index_a, index_b, d>>)
        /\ cluster_chunks' = cluster_chunks \ {chunk}
        /\ pc' = AfterGrow(cluster_chunks')
    /\ UNCHANGED <<hash_size, cluster_size, length, scanned, potential_chunks,
                   chunks, img_data, exploreVars, blocks, tag>>

(***************************************************************************)
(* main.rs:115-140, the chunks on the tree's edges and the cluster chunks   *)
(***************************************************************************)
(* HashMap::insert: the new value replaces the key's old one. *)
Insert(map, key, value) == (key :> value) @@ map

RECURSIVE InsertAll(_, _, _)
InsertAll(map, keys, value) ==
    IF keys = {} THEN map
    ELSE LET k == CHOOSE k \in keys : TRUE IN
         InsertAll(Insert(map, k, value), keys \ {k}, value)

RunAlongXAtEnd(pos_a, pos_b) ==
    {<<x, pos_b.z>> : x \in Min2(pos_a.x, pos_b.x)..Max2(pos_a.x, pos_b.x)}

(* main.rs:125-127 *)
RunAlongX(pos_a, pos_b) ==
    {<<x, pos_a.z>> : x \in Min2(pos_a.x, pos_b.x)..Max2(pos_a.x, pos_b.x)}

(* main.rs:129-131 *)
RunAlongZ(pos_a, pos_b) ==
    {<<pos_b.x, z>> : z \in Min2(pos_a.z, pos_b.z)..Max2(pos_a.z, pos_b.z)}

RECURSIVE CollectEdges(_, _)
CollectEdges(map, edge) ==
    IF edge > Len(graph_edges) THEN map
    ELSE LET pos_a == graph_nodes[graph_edges[edge][1]]
             pos_b == graph_nodes[graph_edges[edge][2]]
             along_x == InsertAll(map, RunAlongX(pos_a, pos_b), "Connecting")
             along_z == InsertAll(along_x, RunAlongZ(pos_a, pos_b), "Connecting")
         IN CollectEdges(along_z, edge + 1)

RECURSIVE CollectNodes(_, _)
CollectNodes(map, node) ==
    IF node > Len(graph_nodes) THEN map
    ELSE CollectNodes(Insert(map, Pos(graph_nodes[node]), "Target"), node + 1)

Collect ==
    /\ pc = "collect"
    /\ chunks' = CollectNodes(CollectEdges(Empty, 1), 1)
    /\ img_data' = [i \in 0..(length * width - 1) |-> 0]
    /\ pc' = "image"
    /\ UNCHANGED <<hash_size, cluster_size, samplerVars, treeVars, exploreVars,
                   blocks, tag>>

(***************************************************************************)
(* main.rs:144-151, the raster.  Every key of chunks writes its own pixel,  *)
(* so the order in which the map is iterated does not show.                 *)
(***************************************************************************)
Pixel(chunk) == (chunk[1] - offset[1]) + (chunk[2] - offset[2]) * length

Shade(typ) == IF typ = "Connecting" THEN 127 ELSE 255

GenerateImage ==
    /\ pc = "image"
    /\ img_data' = [i \in DOMAIN img_data |->
                      IF \E c \in DOMAIN chunks : Pixel(c) = i
                      THEN Shade(chunks[CHOOSE c \in DOMAIN chunks : Pixel(c) = i])
                      ELSE img_data[i]]
    /\ pc' = "schematic"
    /\ UNCHANGED <<hash_size, cluster_size, samplerVars, treeVars, chunks,
                   exploreVars, blocks, tag>>

(***************************************************************************)
(* lib.rs:122-137, Region::set_block_state and Region::fill                 *)
(***************************************************************************)
set_block_state(map, pos, state) == Insert(map, pos, state)

Box(start, end) ==
    {<<x, y, z>> : x \in Min2(start[1], end[1])..Max2(start[1], end[1]),
                   y \in Min2(start[2], end[2])..Max2(start[2], end[2]),
                   z \in Min2(start[3], end[3])..Max2(start[3], end[3])}

fill(map, start, end, state) == [p \in Box(start, end) |-> state] @@ map

(***************************************************************************)
(* main.rs:163-214, the placement pass                                      *)
(***************************************************************************)
chest == "minecraft:chest"
concrete == "minecraft:concrete"

(* min_by_key over node_indices(): the first node nearest the offset. *)
StartNode ==
    CHOOSE i \in DOMAIN graph_nodes : \A j \in DOMAIN graph_nodes \ {i} :
        \/ dist(Pos(graph_nodes[i]), offset) < dist(Pos(graph_nodes[j]), offset)
        \/ /\ dist(Pos(graph_nodes[i]), offset) = dist(Pos(graph_nodes[j]), offset)
           /\ i < j

StartExplore ==
    /\ pc = "schematic"
    /\ LET start == graph_nodes[StartNode] IN
        /\ chunks_to_explore' = {Pos(start)}
        /\ chunks_connected' = {Pos(start)}
    /\ blocks' = Empty
    /\ pc' = "explore"
    /\ UNCHANGED <<hash_size, cluster_size, samplerVars, treeVars, chunks,
                   img_data, current_chunks, tag>>

(* main.rs:175 *)
Drain ==
    /\ pc = "explore"
    /\ current_chunks = {}
    /\ chunks_to_explore # {}
    /\ current_chunks' = chunks_to_explore
    /\ chunks_to_explore' = {}
    /\ UNCHANGED <<pc, hash_size, cluster_size, samplerVars, treeVars, chunks,
                   img_data, chunks_connected, blocks, tag>>

NeighbourNeverBelow(chunk, dir) ==
    CASE dir = 1 -> <<chunk[1] + 1, chunk[2]>>
      [] dir = 2 -> <<chunk[1] - 1, chunk[2]>>
      [] dir = 3 -> <<chunk[1], chunk[2] + 1>>
      [] dir = 4 -> <<chunk[1], chunk[2] + 1>>

(* The four neighbours in the order of main.rs:177, 186, 195, 204, each with *)
(* the place of its chest inside the chunk.                                 *)
Neighbour(chunk, dir) ==
    CASE dir = 1 -> <<chunk[1] + 1, chunk[2]>>
      [] dir = 2 -> <<chunk[1] - 1, chunk[2]>>
      [] dir = 3 -> <<chunk[1], chunk[2] + 1>>
      [] dir = 4 -> <<chunk[1], chunk[2] - 1>>

ChestAt(chunk, dir) ==
    CASE dir = 1 -> <<chunk[1] * 16 + 15, 1, chunk[2] * 16 + 8>>
      [] dir = 2 -> <<chunk[1] * 16 + 0, 1, chunk[2] * 16 + 8>>
      [] dir = 3 -> <<chunk[1] * 16 + 8, 1, chunk[2] * 16 + 15>>
      [] dir = 4 -> <<chunk[1] * 16 + 8, 1, chunk[2] * 16 + 0>>

Centre(chunk) == <<chunk[1] * 16 + 8, 0, chunk[2] * 16 + 8>>

(* One of the four if-blocks of main.rs:177-212, on st = the region's       *)
(* blocks, chunks_connected and chunks_to_explore.                          *)
Visit(st, chunk, dir) ==
    LET pos == Neighbour(chunk, dir) IN
    IF pos \in DOMAIN chunks /\ pos \notin st.connected
    THEN [blocks |-> set_block_state(
                        fill(st.blocks, Centre(chunk), Centre(pos), concrete),
                        ChestAt(chunk, dir), chest),
          connected |-> st.connected \cup {pos},
          to_explore |-> st.to_explore \cup {pos}]
    ELSE st

VisitAll(st, chunk) ==
    Visit(Visit(Visit(Visit(st, chunk, 1), chunk, 2), chunk, 3), chunk, 4)

(* main.rs:176-213, one iteration of the for loop; the Vec drained from the *)
(* HashSet is in no particular order.                                       *)
ExploreChunk ==
    /\ pc = "explore"
    /\ \E chunk \in current_chunks :
        LET st == VisitAll([blocks |-> blocks, connected |-> chunks_connected,
                            to_explore |-> chunks_to_explore], chunk) IN
        /\ blocks' = st.blocks
        /\ chunks_connected' = st.connected
        /\ chunks_to_explore' = st.to_explore
        /\ current_chunks' = current_chunks \ {chunk}
        /\ pc' = IF current_chunks' = {} /\ chunks_to_explore' = {}
                 THEN "write" ELSE "explore"
    /\ UNCHANGED <<hash_size, cluster_size, samplerVars, treeVars, chunks,
                   img_data, tag>>

(* main.rs:216-222: Schematic::write_to calls to_tag on the region. *)
WriteSchematic ==
    /\ pc = "write"
    /\ pc' = "to_tag"
    /\ UNCHANGED <<hash_size, cluster_size, samplerVars, treeVars, chunks,
                   img_data, exploreVars, blocks, tag>>

(***************************************************************************)
(* lib.rs:139-188, Region::to_tag                                           *)
(***************************************************************************)
air == "minecraft:air"
WordBits == 64
MaxBits == 2

MinOf(set) == CHOOSE v \in set : \A w \in set : v <= w
MaxOf(set) == CHOOSE v \in set : \A w \in set : w <= v

(* lib.rs:140 *)
PositionOf(map) ==
    IF DOMAIN map = {} THEN <<0, 0, 0>>
    ELSE <<MinOf({p[1] : p \in DOMAIN map}), MinOf({p[2] : p \in DOMAIN map}),
           MinOf({p[3] : p \in DOMAIN map})>>

(* lib.rs:141 *)
Relative(map) ==
    LET position == PositionOf(map) IN
    [q \in {<<p[1] - position[1], p[2] - position[2], p[3] - position[3]>> :
              p \in DOMAIN map} |->
        map[<<q[1] + position[1], q[2] + position[2], q[3] + position[3]>>]]

(* lib.rs:142 *)
SizeOf(rel) ==
    IF DOMAIN rel = {} THEN <<0, 0, 0>>
    ELSE <<MaxOf({p[1] : p \in DOMAIN rel}) + 1, MaxOf({p[2] : p \in DOMAIN rel}) + 1,
           MaxOf({p[3] : p \in DOMAIN rel}) + 1>>

NextIndexSkipsOne(pal) == Cardinality(DOMAIN pal) + 1

(* lib.rs:149: palette.len() *)
NextIndex(pal) == Cardinality(DOMAIN pal)

(* lib.rs:147-151 on the states in the order in which the iteration of the  *)
(* block map first meets them.                                              *)
RECURSIVE PaletteFrom(_, _, _)
PaletteFrom(pal, order, i) ==
    IF i > Len(order) THEN pal
    ELSE IF order[i] \in DOMAIN pal THEN PaletteFrom(pal, order, i + 1)
    ELSE PaletteFrom(Insert(pal, order[i], NextIndex(pal)), order, i + 1)

(* The orders in which a HashMap's iteration can first meet its values. *)
Orders(set) ==
    {o \in [1..Cardinality(set) -> set] :
        \A i, j \in 1..Cardinality(set) : i # j => o[i] # o[j]}

(* lib.rs:152-155: None where no state has the index; an index past the end *)
(* of the vector panics.                                                    *)
TagsOf(pal) ==
    [i \in 0..(Cardinality(DOMAIN pal) - 1) |->
        IF \E st \in DOMAIN pal : pal[st] = i
        THEN CHOOSE st \in DOMAIN pal : pal[st] = i
        ELSE "None"]

TagsPanic(pal) ==
    \/ \E st \in DOMAIN pal : pal[st] >= Cardinality(DOMAIN pal)
    \/ \E i \in 0..(Cardinality(DOMAIN pal) - 1) : \A st \in DOMAIN pal : pal[st] # i

(* u64::leading_zeros: 64 - leading_zeros(n) is the bit length of n. *)
RECURSIVE BitLength(_)
BitLength(n) == IF n = 0 THEN 0 ELSE 1 + BitLength(n \div 2)

(* lib.rs:158-159 *)
Bits(len) == Min2(WordBits - (WordBits - BitLength(len - 1)), MaxBits)

(* lib.rs:139-161: up to the allocation of block_states. *)
BuildPalette ==
    /\ pc = "to_tag"
    /\ \E order \in Orders(Range(blocks)) :
        LET rel == Relative(blocks)
            pal == PaletteFrom(Insert(Empty, air, 0), order, 1)
            size == SizeOf(rel)
            bits == Bits(Cardinality(DOMAIN pal)) IN
        /\ pc' = IF TagsPanic(pal) THEN "panic" ELSE "pack"
        /\ tag' = [position |-> PositionOf(blocks),
                   blocks |-> rel,
                   size |-> size,
                   palette |-> pal,
                   palette_tags |-> TagsOf(pal),
                   bits |-> bits,
                   block_states |->
                       [w \in 0..((size[1] * size[2] * size[3] * bits)
                                     \div WordBits - 1) |-> {}]]
    /\ UNCHANGED <<hash_size, cluster_size, samplerVars, treeVars, chunks,
                   img_data, exploreVars, blocks>>

(* The set bits of a palette index. *)
BitsOf(v) == {i \in 0..30 : (v \div 2^i) % 2 = 1}
(* i64 << k and >> k for 0 <= k < 64 and a non-negative value. *)
Shl(v, k) == {i + k : i \in BitsOf(v)} \cap 0..(WordBits - 1)
Shr(v, k) == {i - k : i \in BitsOf(v)} \cap 0..(WordBits - 1)

(* lib.rs:164-169 *)
StateIndex(pos, size) == pos[2] * size[3] * size[1] + pos[3] * size[1] + pos[1]
LongIndex(pos, size, bits) == (StateIndex(pos, size) * bits) \div WordBits
BitIndex(pos, size, bits) == (StateIndex(pos, size) * bits) % WordBits
Straddles(pos, size, bits) == BitIndex(pos, size, bits) + bits > WordBits

(* lib.rs:172, 174: the words one block indexes. *)
Touched(pos, size, bits) ==
    {LongIndex(pos, size, bits)} \cup
    (IF Straddles(pos, size, bits) THEN {LongIndex(pos, size, bits) + 1} ELSE {})

(* lib.rs:172, 174: the bits one block sets, as <<word, bit>>. *)
Written(pos, index, size, bits) ==
    {<<LongIndex(pos, size, bits), b>> : b \in Shl(index, BitIndex(pos, size, bits))}
    \cup
    (IF Straddles(pos, size, bits)
     THEN {<<LongIndex(pos, size, bits) + 1, b>> :
              b \in Shr(index, WordBits - BitIndex(pos, size, bits))}
     ELSE {})

(* lib.rs:163-176.  The writes are ORs, so the words do not depend on the   *)
(* order of the blocks; a block that indexes past the vector panics.        *)
Pack ==
    /\ pc = "pack"
    /\ LET rel == tag.blocks
           size == tag.size
           bits == tag.bits
           words == DOMAIN tag.block_states IN
       IF \E pos \in DOMAIN rel : ~(Touched(pos, size, bits) \subseteq words)
       THEN /\ pc' = "panic"
            /\ tag' = tag
       ELSE \E ones \in {UNION {Written(pos, tag.palette[rel[pos]], size, bits) :
                                   pos \in DOMAIN rel}} :
            /\ pc' = "done"
            /\ tag' = [tag EXCEPT !.block_states =
                          [w \in words |-> {o[2] : o \in {q \in ones : q[1] = w}}]]
    /\ UNCHANGED <<hash_size, cluster_size, samplerVars, treeVars, chunks,
                   img_data, exploreVars, blocks>>

Next == Start \/ Accept \/ ScanColumn \/ SeedTree \/ GrowTree \/ Collect
        \/ GenerateImage \/ StartExplore \/ Drain \/ ExploreChunk
        \/ WriteSchematic \/ BuildPalette \/ Pack

Spec == Init /\ [][Next]_vars

(* main is one thread that runs until it returns or panics: the while loop  *)
(* of the placement pass takes its next step.                               *)
FairSpec == Spec /\ WF_vars(Drain) /\ WF_vars(ExploreChunk)

(***************************************************************************)
(* A caller of the library alone: any sequence of set_block_state and fill  *)
(* on a new region, then to_tag.                                            *)
(***************************************************************************)
MaxX == 31
Xs == {0, 1, MaxX}
Ys == {0}
Zs == {0}
Corners == Xs \X Ys \X Zs
States == {air, concrete, chest, "minecraft:glass", "minecraft:stone"}

RegionInit ==
    /\ pc = "region"
    /\ hash_size = 1
    /\ cluster_size = 0
    /\ length = 0
    /\ scanned = Empty
    /\ cluster_chunks = {}
    /\ potential_chunks = {}
    /\ graph_nodes = Empty
    /\ graph_edges = Empty
    /\ chunks = Empty
    /\ img_data = Empty
    /\ chunks_to_explore = {}
    /\ current_chunks = {}
    /\ chunks_connected = {}
    /\ blocks = Empty
    /\ tag = Empty

SetBlockState ==
    /\ pc = "region"
    /\ \E pos \in Corners, state \in States :
        blocks' = set_block_state(blocks, pos, state)
    /\ UNCHANGED <<pc, hash_size, cluster_size, samplerVars, treeVars, chunks,
                   img_data, exploreVars, tag>>

Fill ==
    /\ pc = "region"
    /\ \E start \in Corners, end \in Corners, state \in States :
        blocks' = fill(blocks, start, end, state)
    /\ UNCHANGED <<pc, hash_size, cluster_size, samplerVars, treeVars, chunks,
                   img_data, exploreVars, tag>>

ToTag ==
    /\ pc = "region"
    /\ pc' = "to_tag"
    /\ UNCHANGED <<hash_size, cluster_size, samplerVars, treeVars, chunks,
                   img_data, exploreVars, blocks, tag>>

RegionNext == SetBlockState \/ Fill \/ ToTag \/ BuildPalette \/ Pack

RegionSpec == RegionInit /\ [][RegionNext]_vars

(***************************************************************************)
(* The properties                                                           *)
(***************************************************************************)
CountBelow(f, v) == Cardinality({d \in DOMAIN f : f[d] < v})
CountUpTo(f, v) == Cardinality({d \in DOMAIN f : f[d] <= v})

(* The n-th smallest value of f, counted with multiplicity, 1 <= n <= |f|. *)
NthSmallest(f, n) ==
    CHOOSE v \in Range(f) : CountBelow(f, v) < n /\ n <= CountUpTo(f, v)

HashOf(set) == [c \in set |-> c.hash]

(* C1 as claimed: when the sampler loop stops, the ClusterSet holds exactly *)
(* K cells and the K-th smallest hash among them is at most the (K+1)-th    *)
(* smallest hash among all coordinates of the scanned region.               *)
C1_KSmallestOfRegion ==
    pc = "sampled" =>
        /\ Cardinality(cluster_chunks) = cluster_size
        /\ (cluster_size >= 1 /\ Cardinality(DOMAIN scanned) >= cluster_size + 1) =>
               NthSmallest(HashOf(cluster_chunks), cluster_size)
                   <= NthSmallest(scanned, cluster_size + 1)

(* C1 as amended: when the sampler loop stops, the ClusterSet holds exactly *)
(* K cells of the scanned region, each with a hash of at least              *)
(* hashSpaceSize - K, and for every j in 1..K the j-th smallest hash among  *)
(* them is at most hashSpaceSize - K + j - 1.                               *)
C1_ClusterOfTopHashes ==
    pc = "sampled" =>
        /\ Cardinality(cluster_chunks) = cluster_size
        /\ \A c \in cluster_chunks :
              /\ Pos(c) \in DOMAIN scanned
              /\ scanned[Pos(c)] = c.hash
              /\ c.hash >= hash_size - cluster_size
        /\ \A j \in 1..cluster_size :
              NthSmallest(HashOf(cluster_chunks), j)
                  <= hash_size - cluster_size + j - 1

(* The loop has stopped with three cells, not all of the same hash, after   *)
(* scanning a cell it did not admit.                                        *)
C1_Witness ==
    /\ pc = "sampled"
    /\ cluster_size = 3
    /\ Cardinality({c.hash : c \in cluster_chunks}) >= 2
    /\ \E p \in DOMAIN scanned : scanned[p] < hash_size - cluster_size

(* C8: in the sampler loop, a cell moves from the pending queue to the      *)
(* ClusterSet only if it is a minimum-hash pending candidate and its hash h *)
(* satisfies hashSpaceSize - K <= h <= hashSpaceSize - K + accepted; a      *)
(* column is scanned only if the queue is empty or its minimum hash exceeds *)
(* that bound; accepted cells have pairwise distinct coordinates and the    *)
(* loop stops as soon as K are accepted.                                    *)
C8_AcceptanceRule ==
    [][/\ pc = "sample" =>
            /\ Cardinality(cluster_chunks) < cluster_size
            /\ cluster_chunks' # cluster_chunks =>
                  \E c \in potential_chunks :
                      /\ cluster_chunks' = cluster_chunks \cup {c}
                      /\ potential_chunks' = potential_chunks \ {c}
                      /\ \A d \in potential_chunks : c.hash <= d.hash
                      /\ hash_size - cluster_size <= c.hash
                      /\ c.hash <= hash_size - cluster_size
                                      + Cardinality(cluster_chunks)
                      /\ \A e \in cluster_chunks : Pos(e) # Pos(c)
                      /\ length' = length
            /\ length' # length =>
                  /\ \A d \in potential_chunks :
                        d.hash > hash_size - cluster_size
                                     + Cardinality(cluster_chunks)
                  /\ cluster_chunks' = cluster_chunks
            /\ Cardinality(cluster_chunks') >= cluster_size => pc' = "sampled"
       /\ pc # "sample" => length' = length /\ potential_chunks' = potential_chunks
      ]_vars

(* A cell was accepted while a candidate of a greater hash was pending. *)
C8_Witness ==
    /\ pc \in {"sample", "sampled"}
    /\ cluster_chunks # {}
    /\ \E c \in cluster_chunks, d \in potential_chunks : c.hash < d.hash

(* The reference: the least total weight of a spanning tree of the complete *)
(* Manhattan-distance graph on a set of coordinates.                        *)
RECURSIVE Reach(_, _)
Reach(seen, edges) ==
    LET more == seen \cup UNION {e \in edges : e \cap seen # {}} IN
    IF more = seen THEN seen ELSE Reach(more, edges)

Connects(points, edges) ==
    points = {} \/ Reach({CHOOSE p \in points : TRUE}, edges) = points

RECURSIVE Weight(_)
Weight(edges) ==
    IF edges = {} THEN 0
    ELSE LET e == CHOOSE e \in edges : TRUE IN
         (LET p == CHOOSE p \in e : TRUE
              q == CHOOSE q \in e : q # p IN dist(p, q)) + Weight(edges \ {e})

CompleteGraph(points) == {{p, q} : p, q \in points} \ {{p} : p \in points}

MinimumSpanningWeight(points) ==
    MinOf({Weight(t) : t \in {u \in SUBSET CompleteGraph(points) :
                                 /\ Cardinality(u) = Cardinality(points) - 1
                                 /\ Connects(points, u)}})

RECURSIVE SumOfWeights(_, _)
SumOfWeights(edges, i) ==
    IF i > Len(edges) THEN 0 ELSE edges[i][3] + SumOfWeights(edges, i + 1)

NodePositions == {Pos(graph_nodes[i]) : i \in DOMAIN graph_nodes}

TreeBuilt ==
    /\ Len(graph_nodes) = cluster_size
    /\ Cardinality(NodePositions) = cluster_size
    /\ Len(graph_edges) = cluster_size - 1
    /\ \A i \in DOMAIN graph_edges :
          LET e == graph_edges[i] IN
          /\ e[1] \in DOMAIN graph_nodes /\ e[2] \in DOMAIN graph_nodes
          /\ e[3] = dist(Pos(graph_nodes[e[1]]), Pos(graph_nodes[e[2]]))
    /\ Connects(NodePositions,
                {{Pos(graph_nodes[graph_edges[i][1]]),
                  Pos(graph_nodes[graph_edges[i][2]])} : i \in DOMAIN graph_edges})
    /\ SumOfWeights(graph_edges, 1) = MinimumSpanningWeight(NodePositions)

(* C2: the nodes of the graph are the K cells of the ClusterSet, one node   *)
(* each (the loop only moves cells from the set to the graph), and when the *)
(* loop ends the graph has K - 1 edges, each weighted by the Manhattan      *)
(* distance of its ends, is connected, and its total weight is that of a    *)
(* minimum spanning tree of the complete distance graph on the cells.       *)
C2_MinimumSpanningTree ==
    /\ [](pc = "collect" => TreeBuilt)
    /\ [][(pc = "sampled" \/ pc = "tree") =>
              Range(graph_nodes') \cup cluster_chunks'
                  = Range(graph_nodes) \cup cluster_chunks]_vars

(* A tree of four cells that do not all lie within distance 1 of the seed. *)
C2_Witness ==
    /\ pc = "collect"
    /\ Len(graph_nodes) = 4
    /\ \E i \in DOMAIN graph_nodes :
          dist(Pos(graph_nodes[i]), Pos(graph_nodes[1])) >= 3

Between(a, b) == {v \in Min2(a, b)..Max2(a, b) : TRUE}

PathOf(a, b) ==
    {<<x, a.z>> : x \in Between(a.x, b.x)} \cup {<<b.x, z>> : z \in Between(a.z, b.z)}

Collected == graph_nodes # Empty /\ pc \notin {"tree", "collect"}

(* C6: the keys of the ClassifiedMap are the ClusterSet members and, for    *)
(* every tree edge (A, B), the cells (x, A.z) with x between A.x and B.x    *)
(* and the cells (B.x, z) with z between A.z and B.z; every member is       *)
(* Anchor, every other key Connector; K = 1 gives no edge, one Anchor and   *)
(* no Connector.                                                            *)
C6_ClassifiedMap ==
    Collected =>
        /\ DOMAIN chunks =
              NodePositions \cup
              UNION {PathOf(graph_nodes[graph_edges[i][1]],
                            graph_nodes[graph_edges[i][2]]) : i \in DOMAIN graph_edges}
        /\ \A k \in DOMAIN chunks :
              chunks[k] = IF k \in NodePositions THEN "Target" ELSE "Connecting"
        /\ cluster_size = 1 =>
              /\ graph_edges = Empty
              /\ Cardinality(DOMAIN chunks) = 1

(* An edge that turns a corner, and a cluster chunk on another edge's path. *)
C6_Witness ==
    /\ Collected
    /\ \E i \in DOMAIN graph_edges :
          LET a == graph_nodes[graph_edges[i][1]]
              b == graph_nodes[graph_edges[i][2]] IN
          /\ a.x # b.x /\ a.z # b.z
          /\ <<b.x, a.z>> \notin NodePositions
          /\ chunks[<<b.x, a.z>>] = "Connecting"

Adjacent(cells) == {e \in CompleteGraph(cells) : \E p, q \in e : dist(p, q) = 1}

(* C10: the ClassifiedMap is connected under 4-neighbour adjacency; every   *)
(* step of the exploration adds to the connected set only keys of the map   *)
(* that were not connected, each an orthogonal neighbour of the chunk being *)
(* processed, and puts exactly those on the frontier; the exploration       *)
(* terminates, whatever the order of the frontier, and the connected set is *)
(* then the key set of the map.                                             *)
C10_PlacementCoverage ==
    /\ [](Collected => Connects(DOMAIN chunks, Adjacent(DOMAIN chunks)))
    /\ [](pc = "write" => chunks_connected = DOMAIN chunks)
    /\ [][(pc = "explore") =>
             LET new == chunks_connected' \ chunks_connected IN
             /\ chunks_connected \subseteq chunks_connected'
             /\ new \subseteq DOMAIN chunks
             /\ chunks_to_explore' \ chunks_to_explore = new
             /\ new # {} => \E c \in current_chunks \ current_chunks' :
                               \A p \in new : dist(p, c) = 1
          ]_vars
    /\ ((pc = "explore") ~> (pc = "write"))

(* The exploration has ended on a map with a Connector and a cell that two  *)
(* connected cells of the round before both touch.                          *)
C10_Witness ==
    /\ pc = "write"
    /\ \E k \in DOMAIN chunks : chunks[k] = "Connecting"
    /\ {<<offset[1], offset[2]>>, <<offset[1] + 1, offset[2]>>,
        <<offset[1], offset[2] + 1>>, <<offset[1] + 1, offset[2] + 1>>}
           \subseteq chunks_connected

(* The placement pass and the palette with every unordered container        *)
(* iterated in one fixed order.                                             *)
RECURSIVE ExploreInOrder(_, _)
ExploreInOrder(st, current) ==
    IF current = {}
    THEN IF st.to_explore = {} THEN st
         ELSE ExploreInOrder([st EXCEPT !.to_explore = {}], st.to_explore)
    ELSE LET chunk == CHOOSE c \in current : TRUE IN
         ExploreInOrder(VisitAll(st, chunk), current \ {chunk})

BlocksInOrder ==
    LET start == Pos(graph_nodes[StartNode]) IN
    ExploreInOrder([blocks |-> Empty, connected |-> {start},
                    to_explore |-> {start}], {}).blocks

PaletteInOrder ==
    PaletteFrom(Insert(Empty, air, 0),
                CHOOSE order \in Orders(Range(blocks)) : TRUE, 1)

(* C3 as claimed: the outputs are a function of the inputs, so they are     *)
(* those of the run that iterates every unordered container in one fixed    *)
(* order: the same placed voxels and the same palette index for each block  *)
(* identifier.                                                              *)
C3_SameOutputInEveryOrder ==
    /\ pc = "write" => blocks = BlocksInOrder
    /\ pc \in {"pack", "done"} => tag.palette = PaletteInOrder

(* C4 as claimed: a cluster size that can never be met (here: greater than  *)
(* the hash space, so that no hash is admitted) does not make the sampler   *)
(* scan without bound; it stops at a maximum scan area.  Whatever that area *)
(* is, a run that is still sampling has not scanned all MaxLength columns   *)
(* of the model.                                                            *)
C4_ScanStopsAtCap ==
    (pc = "sample" /\ cluster_size > hash_size) => length < MaxLength

(* The least w with 2^w >= n. *)
CeilLog2(n) == MinOf({w \in 0..n : 2^w >= n})

(* C5 as claimed: the field width to_tag uses is                            *)
(* max(1, ceil(log2(paletteSize))).                                         *)
C5_FieldWidth ==
    tag # Empty =>
        tag.bits = Max2(1, CeilLog2(Cardinality(DOMAIN tag.palette)))

(* C7: in the palette to_tag builds, air has index 0 whether or not a voxel *)
(* uses it, the identifiers are air and those present in the region, no two *)
(* share an index, the indices are 0..paletteSize-1, and every entry of     *)
(* BlockStatePalette is defined.                                            *)
C7_Palette ==
    tag # Empty =>
        LET n == Cardinality(DOMAIN tag.palette) IN
        /\ DOMAIN tag.palette = {air} \cup Range(blocks)
        /\ tag.palette[air] = 0
        /\ \A st1, st2 \in DOMAIN tag.palette :
              st1 # st2 => tag.palette[st1] # tag.palette[st2]
        /\ Range(tag.palette) = 0..(n - 1)
        /\ DOMAIN tag.palette_tags = 0..(n - 1)
        /\ \A i \in 0..(n - 1) :
              /\ tag.palette_tags[i] \in DOMAIN tag.palette
              /\ tag.palette[tag.palette_tags[i]] = i

(* to_tag has returned a palette of five entries for a region with no air   *)
(* voxel.                                                                   *)
C7_Witness ==
    /\ pc = "done"
    /\ Cardinality(DOMAIN tag.palette) = 5
    /\ air \notin Range(blocks)

(* Bit g of the packed words, 0 where there is no such word. *)
BitAt(words, g) ==
    IF g \div WordBits \in DOMAIN words /\ g % WordBits \in words[g \div WordBits]
    THEN 1 ELSE 0

(* The w-bit field at bit offset index * w. *)
RECURSIVE ReadBits(_, _, _)
ReadBits(words, from, w) ==
    IF w = 0 THEN 0 ELSE BitAt(words, from) + 2 * ReadBits(words, from + 1, w - 1)

ReadField(words, w, index) == ReadBits(words, index * w, w)

(* C9 as claimed: to_tag never indexes outside BlockStates, and in what it  *)
(* returns the field of every voxel of the bounding box holds the palette   *)
(* index of the voxel's block, 0 for a voxel with no block.                 *)
C9_PackingRoundTrip ==
    /\ tag # Empty => pc # "panic"
    /\ pc = "done" =>
          \A x \in 0..(tag.size[1] - 1), y \in 0..(tag.size[2] - 1),
             z \in 0..(tag.size[3] - 1) :
              ReadField(tag.block_states, tag.bits,
                        StateIndex(<<x, y, z>>, tag.size))
                  = IF <<x, y, z>> \in DOMAIN tag.blocks
                    THEN tag.palette[tag.blocks[<<x, y, z>>]]
                    ELSE 0
====
